---------------------------- MODULE Spec2Model ----------------------------
(***************************************************************************)
(* Model of the Cortensor OpenAI-compatible provider: the request          *)
(* transformer (transformToCortensor) with its web-search branch, the      *)
(* response transformer (transformToOpenAI), the search directive parser   *)
(* (extractSearchDirectives) and the provider's fetch pipeline             *)
(* (cortensorModel, extractModelConfiguration, processRequest,             *)
(* processCustomRequest).                                                  *)
(*                                                                         *)
(* Strings are sequences of one-character strings, so that the regular     *)
(* expressions of the source (marker removal, trimming) are computed       *)
(* character by character.  A fixed literal of the source that no regular  *)
(* expression of the source can match inside (a prompt header, a role tag) *)
(* is kept as one element of such a sequence.                              *)
(*                                                                         *)
(* An optional value (a TypeScript `T | undefined`) is a sequence of       *)
(* length 0 (absent) or 1 (present).                                       *)
(***************************************************************************)
EXTENDS Integers, Sequences, FiniteSets, TLC

VARIABLES
    variant,    \* which source variant of the transformer is deployed
    dIn,        \* extractSearchDirectives: the arguments of the call
    dOut,       \* extractSearchDirectives: the returned SearchDirectives (optional)
    oIn,        \* transformToOpenAI: the arguments of the call
    oOut,       \* transformToOpenAI: what the call did (optional)
    env,        \* process.env: which of the Cortensor variables are set
    entry,      \* how the application reaches the transformer
    registry,   \* webSearchProviderRegistry
    providerIdCounter,
    models,     \* the model names cortensorModel has returned
    given,      \* the configurations cortensorModel was given, in order
    mpc,        \* the request: where fetch / the direct call stands
    tr,         \* the request: the run of transformToCortensor
    calls,      \* the outbound calls dispatched so far, in order
    response,   \* the request: the Response returned by fetch (optional)
    modelConfigurations,  \* the configuration store of the store variant
    sLast,      \* the configuration store: the last call and what it did
    bIn,        \* buildFormattedPrompt: the messages of the call
    bOut        \* buildFormattedPrompt: the returned prompt (optional)

dvars == <<dIn, dOut>>
ovars == <<oIn, oOut>>
regvars == <<registry, providerIdCounter, models, given>>
reqvars == <<mpc, tr, calls, response>>
pvars == <<env, entry, regvars, reqvars>>
svars == <<modelConfigurations, sLast>>
bvars == <<bIn, bOut>>
vars == <<variant, dvars, ovars, pvars, svars, bvars>>

None == <<>>
Some(x) == <<x>>
IsSome(o) == Len(o) = 1
Get(o) == o[1]

(***************************************************************************)
(* Bounds of the model.                                                    *)
(***************************************************************************)
MaxPieces == 3
MaxChoices == 2
MaxModels == 2

(***************************************************************************)
(* The source variants.  "inline": transformers.ts lines 1-548, where the  *)
(* transformer holds its own helpers and the markers are [search] and      *)
(* [no-search].  "websearch": transformers.ts lines 556-1002, which        *)
(* imports the helpers of the websearch module (unnamed/part_000), where   *)
(* the markers are [**search**] and [**no-search**].                       *)
(***************************************************************************)
Variants == {"inline", "websearch"}

(***************************************************************************)
(* Strings.                                                                *)
(***************************************************************************)
LowerOf ==
    [c \in {"S", "E", "A", "R", "C", "H", "N", "O"} |->
        CASE c = "S" -> "s" [] c = "E" -> "e" [] c = "A" -> "a"
          [] c = "R" -> "r" [] c = "C" -> "c" [] c = "H" -> "h"
          [] c = "N" -> "n" [] c = "O" -> "o"]

Lower(c) == IF c \in DOMAIN LowerOf THEN LowerOf[c] ELSE c

\* The upper-case spelling of a lower-case literal.
Upper(s) ==
    [i \in 1..Len(s) |->
        IF \E u \in DOMAIN LowerOf : LowerOf[u] = s[i]
        THEN CHOOSE u \in DOMAIN LowerOf : LowerOf[u] = s[i]
        ELSE s[i]]

IsSpace(c) == c \in {" ", "\n", "\t"}

\* A case-insensitive literal regular expression matches s at position i.
MatchAt(s, i, pat) ==
    /\ i + Len(pat) - 1 <= Len(s)
    /\ \A k \in 1..Len(pat) : Lower(s[i + k - 1]) = pat[k]

\* RegExp.prototype.test of a case-insensitive literal.
Test(s, pat) == \E i \in 1..Len(s) : MatchAt(s, i, pat)

\* String.prototype.replace(/pat/gi, ''): one left-to-right pass over the
\* input; the scan resumes after each match and never revisits its output.
RECURSIVE RemoveFrom(_, _, _)
RemoveFrom(s, pat, i) ==
    IF i > Len(s) THEN <<>>
    ELSE IF MatchAt(s, i, pat) THEN RemoveFrom(s, pat, i + Len(pat))
    ELSE <<s[i]>> \o RemoveFrom(s, pat, i + 1)

RemoveAll(s, pat) == RemoveFrom(s, pat, 1)

RECURSIVE TrimStart(_)
TrimStart(s) ==
    IF s # <<>> /\ IsSpace(Head(s)) THEN TrimStart(Tail(s)) ELSE s

RECURSIVE TrimEnd(_)
TrimEnd(s) ==
    IF s # <<>> /\ IsSpace(s[Len(s)]) THEN TrimEnd(SubSeq(s, 1, Len(s) - 1)) ELSE s

\* String.prototype.trim
Trim(s) == TrimEnd(TrimStart(s))

RECURSIVE Concat(_)
Concat(ss) == IF ss = <<>> THEN <<>> ELSE Head(ss) \o Concat(Tail(ss))

\* Array.prototype.join
RECURSIVE Join(_, _)
Join(ss, sep) ==
    IF ss = <<>> THEN <<>>
    ELSE IF Len(ss) = 1 THEN ss[1]
    ELSE ss[1] \o sep \o Join(Tail(ss), sep)

DropLast(s) == SubSeq(s, 1, Len(s) - 1)

\* The markers each variant recognises, as the lower-case literal of its
\* regular expression.
PlainSearch == <<"[", "s", "e", "a", "r", "c", "h", "]">>
PlainNoSearch == <<"[", "n", "o", "-", "s", "e", "a", "r", "c", "h", "]">>
BoldSearch == <<"[", "*", "*", "s", "e", "a", "r", "c", "h", "*", "*", "]">>
BoldNoSearch ==
    <<"[", "*", "*", "n", "o", "-", "s", "e", "a", "r", "c", "h", "*", "*", "]">>

SearchMarker(v) == IF v = "inline" THEN PlainSearch ELSE BoldSearch
NoSearchMarker(v) == IF v = "inline" THEN PlainNoSearch ELSE BoldNoSearch

(***************************************************************************)
(* Messages.  A content is a string, an array of parts, or anything else   *)
(* (null, a number).  A part is a raw string, a {type: "text"} object or   *)
(* an object of another type.                                              *)
(***************************************************************************)
StrContent(s) == [kind |-> "string", text |-> s, parts |-> <<>>]
PartsContent(ps) == [kind |-> "parts", text |-> <<>>, parts |-> ps]
OtherContent == [kind |-> "other", text |-> <<>>, parts |-> <<>>]
Msg(r, c) == [role |-> r, content |-> c]

\* extractMessageContent
ExtractMessageContent(m) ==
    IF m.content.kind = "string" THEN m.content.text
    ELSE IF m.content.kind = "parts" THEN
        LET kept == SelectSeq(m.content.parts, LAMBDA p : p.type \in {"raw", "text"})
            texts == [i \in 1..Len(kept) |-> kept[i].text]
        IN  Trim(Join(texts, <<" ">>))
    ELSE <<>>

(***************************************************************************)
(* extractSearchDirectives(messages, webSearchConfig).  The configuration  *)
(* is optional; of it only the mode is read.                               *)
(***************************************************************************)
HasSearchMarker(v, content) == Test(content, SearchMarker(v))
HasNoSearchMarker(v, content) == Test(content, NoSearchMarker(v))

\* cleanedContent.replace(search, '').replace(noSearch, '').trim()
CleanContent(v, content) ==
    Trim(RemoveAll(RemoveAll(content, SearchMarker(v)), NoSearchMarker(v)))

\* A decision in which a positive marker wins over a negative one.
DecideSearch_PositiveWins(mode, hasSearch, hasNoSearch) ==
    IF mode = "force" THEN TRUE
    ELSE IF mode = "disable" THEN FALSE
    ELSE hasSearch

DecideSearch(mode, hasSearch, hasNoSearch) ==
    IF mode = "force" THEN TRUE
    ELSE IF mode = "disable" THEN FALSE
    ELSE IF hasNoSearch THEN FALSE
    ELSE IF hasSearch THEN TRUE
    ELSE FALSE

ExtractSearchDirectives(v, messages, cfg) ==
    IF cfg = None \/ Len(messages) = 0
    THEN [shouldSearch |-> FALSE, cleanedMessages |-> messages]
    ELSE
        LET lastMessage == messages[Len(messages)]
            originalContent == ExtractMessageContent(lastMessage)
            cleanedContent == CleanContent(v, originalContent)
        IN  [shouldSearch |->
                DecideSearch(Get(cfg).mode,
                             HasSearchMarker(v, originalContent),
                             HasNoSearchMarker(v, originalContent)),
             cleanedMessages |->
                DropLast(messages) \o
                    <<Msg(lastMessage.role, StrContent(cleanedContent))>>]

DIdle ==
    /\ dIn = [messages |-> <<>>, config |-> None]
    /\ dOut = None

\* No call of buildFormattedPrompt is under study.
BIdle ==
    /\ bIn = <<>>
    /\ bOut = None

\* No call on the configuration store is under study.
SIdle ==
    /\ modelConfigurations = {}
    /\ sLast = [op |-> "none", arg |-> None, before |-> {}, outcome |-> "none",
                resolved |-> None]

(***************************************************************************)
(* Search results.                                                         *)
(***************************************************************************)
Result(t, u, sn) == [title |-> t, url |-> u, snippet |-> sn]
R1 == Result(<<"T", "1">>, <<"u", "1">>, <<"s", "1">>)
R2 == Result(<<"T", "2">>, <<"u", "2">>, <<>>)

(***************************************************************************)
(* transformToOpenAI(cortensorResponse, webSearchResults?, searchQuery?).  *)
(*                                                                         *)
(* The downstream response is a status and a body.  A body is empty, not   *)
(* JSON, or JSON; a JSON value is null (or another non-object) or an       *)
(* object, whose choices are absent, not an array, or an array.  An entry  *)
(* of the array is null or an object whose text is absent, a string or a   *)
(* number and whose index and finish_reason are optional.                  *)
(***************************************************************************)
TextAbsent == [kind |-> "absent", s |-> <<>>]
TextStr(s) == [kind |-> "string", s |-> s]
TextNum == [kind |-> "number", s |-> <<"7">>]

Choice(t, i, f) == [isNull |-> FALSE, text |-> t, index |-> i, finish_reason |-> f]
NullChoice == [isNull |-> TRUE, text |-> TextAbsent, index |-> None, finish_reason |-> None]

Body(k, j, c, items, u, m) ==
    [kind |-> k, json |-> j, choices |-> c, items |-> items, usage |-> u, model |-> m]
EmptyBody == Body("empty", "none", "absent", <<>>, None, None)
NotJsonBody == Body("notjson", "none", "absent", <<>>, None, None)
JsonNullBody == Body("json", "null", "absent", <<>>, None, None)
NoChoicesBody(u) == Body("json", "object", "absent", <<>>, u, None)
ChoicesNotArrayBody(u) == Body("json", "object", "notArray", <<>>, u, None)
ObjectBody(items, u, m) == Body("json", "object", "array", items, u, m)

ZeroUsage == [prompt_tokens |-> 0, completion_tokens |-> 0, total_tokens |-> 0]

ApologyText == <<"Sorry, I encountered an error processing your request.">>

\* createErrorResponse: the fixed chat completion of the error path.
CreateErrorResponse ==
    [object |-> "chat.completion",
     model |-> "cortensor-model",
     choices |-> << [index |-> 0,
                     message |-> [role |-> "assistant",
                                  content |-> TextStr(ApologyText),
                                  tool_calls |-> None],
                     finish_reason |-> "stop"] >>,
     usage |-> None]

\* `await cortensorResponse.json()` rejects.
JsonRejects(body) == body.kind \in {"empty", "notjson"}

\* `cortensorData.choices.map(...)` raises a TypeError before any choice is
\* looked at: the value has no property choices, or choices has no map.
ChoicesMapRaises(body) == body.json = "null" \/ body.choices # "array"

\* choice.text || ''
TextOrEmpty(t) == IF t.kind = "absent" \/ (t.kind = "string" /\ t.s = <<>>)
                  THEN TextStr(<<>>) ELSE t

\* formatSearchResults of the utilities (citations): '' for no results.
CitationLine(r, n) == <<"[", n, "] [">> \o r.title \o <<"](">> \o r.url \o <<")">>
FormatCitations(results) ==
    IF Len(results) = 0 THEN <<>>
    ELSE <<"\n", "\n", "**Sources:**", "\n">>
         \o Join([i \in 1..Len(results) |-> CitationLine(results[i], ToString(i))],
                 <<"\n">>)

\* The tokens sanitizeMessageContent removes (case-sensitive), in its order.
StopTokens ==
    << <<"<", "/", "s", ">">>, <<"<", "s", ">">>,
       <<"[", "I", "N", "S", "T", "]">>, <<"[", "/", "I", "N", "S", "T", "]">> >>

MatchAtCS(s, i, pat) ==
    /\ i + Len(pat) - 1 <= Len(s)
    /\ \A k \in 1..Len(pat) : s[i + k - 1] = pat[k]

RECURSIVE RemoveFromCS(_, _, _)
RemoveFromCS(s, pat, i) ==
    IF i > Len(s) THEN <<>>
    ELSE IF MatchAtCS(s, i, pat) THEN RemoveFromCS(s, pat, i + Len(pat))
    ELSE <<s[i]>> \o RemoveFromCS(s, pat, i + 1)

\* sanitizeMessageContent
SanitizeMessageContent(content) ==
    Trim(RemoveFromCS(RemoveFromCS(RemoveFromCS(RemoveFromCS(
        content, StopTokens[1], 1), StopTokens[2], 1), StopTokens[3], 1),
        StopTokens[4], 1))

\* content.toLowerCase().includes(word)
Includes(s, pat) == \E i \in 1..Len(s) : MatchAt(s, i, pat)
BasedOnText == <<"Based on the search results provided:">>
MentionsSources(content) ==
    \/ BasedOnText[1] \in {content[i] : i \in 1..Len(content)}
    \/ Includes(content, <<"s", "e", "a", "r", "c", "h", " ", "r", "e", "s", "u", "l", "t">>)
    \/ Includes(content, <<"s", "o", "u", "r", "c", "e">>)

HasResults(resultsOpt) == resultsOpt # None /\ Len(Get(resultsOpt)) > 0
Truthy(strOpt) == strOpt # None /\ Get(strOpt) # <<>>

\* One choice, tool-call presentation (transformers.ts 474-500).
ToolCallChoice(choice, pos, resultsOpt, queryOpt) ==
    [index |-> IF choice.index # None THEN Get(choice.index) ELSE pos - 1,
     message |->
        [role |-> "assistant",
         content |-> TextOrEmpty(choice.text),
         tool_calls |->
            IF HasResults(resultsOpt) /\ Truthy(queryOpt)
            THEN Some([name |-> "web_search",
                       query |-> Get(queryOpt),
                       results |-> Get(resultsOpt)])
            ELSE None],
     finish_reason |->
        IF HasResults(resultsOpt) THEN "tool_calls"
        ELSE IF choice.finish_reason # None THEN Get(choice.finish_reason)
        ELSE "stop"]

\* One choice, citation presentation (transformers.ts 854-913).  The text
\* is a string here: a number has no replace method (see ChoiceRaises).
CitationContent(choice, resultsOpt) ==
    LET c0 == SanitizeMessageContent(TextOrEmpty(choice.text).s)
        c1 == IF Len(c0) <= 50 /\ HasResults(resultsOpt) /\ c0 = <<>>
              THEN BasedOnText ELSE c0
    IN  IF HasResults(resultsOpt)
        THEN c1 \o (IF MentionsSources(c1) THEN <<"\n", "\n">>
                    ELSE <<"\n", "\n", "**Sources Referenced:** ">>)
                \o FormatCitations(Get(resultsOpt))
        ELSE c1

CitationChoice(choice, pos, resultsOpt) ==
    [index |-> IF choice.index # None THEN Get(choice.index) ELSE pos - 1,
     message |-> [role |-> "assistant",
                  content |-> TextStr(CitationContent(choice, resultsOpt)),
                  tool_calls |-> None],
     finish_reason |->
        IF choice.finish_reason # None THEN Get(choice.finish_reason) ELSE "stop"]

\* The callback of choices.map raises a TypeError on this choice: a property
\* of null is read, or (citation presentation) replace is called on a number.
ChoiceRaises(v, choice) ==
    \/ choice.isNull
    \/ v = "websearch" /\ choice.text.kind = "number"

TransformedChoices(v, body, resultsOpt, queryOpt) ==
    [i \in 1..Len(body.items) |->
        IF v = "inline"
        THEN ToolCallChoice(body.items[i], i, resultsOpt, queryOpt)
        ELSE CitationChoice(body.items[i], i, resultsOpt)]

\* The try block of transformToOpenAI raises.
OpenAIRaises(v, body) ==
    \/ JsonRejects(body)
    \/ ChoicesMapRaises(body)
    \/ \E i \in 1..Len(body.items) : ChoiceRaises(v, body.items[i])

\* A transformer that never copies the downstream usage.
TransformToOpenAI_ZeroUsage(v, resp, resultsOpt, queryOpt) ==
    IF OpenAIRaises(v, resp.body)
    THEN [threw |-> FALSE, status |-> 500, body |-> CreateErrorResponse]
    ELSE [threw |-> FALSE,
          status |-> resp.status,
          body |-> [object |-> "chat.completion",
                    model |-> IF resp.body.model # None THEN Get(resp.body.model)
                              ELSE "cortensor-model",
                    choices |-> TransformedChoices(v, resp.body, resultsOpt, queryOpt),
                    usage |-> Some(ZeroUsage)]]

\* The returned Response; threw is TRUE when an exception leaves the
\* function (no path of the source does that: the catch block only builds
\* the fixed response).
TransformToOpenAI(v, resp, resultsOpt, queryOpt) ==
    IF OpenAIRaises(v, resp.body)
    THEN [threw |-> FALSE, status |-> 500, body |-> CreateErrorResponse]
    ELSE [threw |-> FALSE,
          status |-> resp.status,
          body |-> [object |-> "chat.completion",
                    model |-> IF resp.body.model # None THEN Get(resp.body.model)
                              ELSE "cortensor-model",
                    choices |-> TransformedChoices(v, resp.body, resultsOpt, queryOpt),
                    usage |-> IF resp.body.usage # None THEN resp.body.usage
                              ELSE Some(ZeroUsage)]]

\* No call of transformToOpenAI is under study.
OIdle ==
    /\ oIn = [response |-> [status |-> 200, body |-> EmptyBody],
              results |-> None, query |-> None]
    /\ oOut = None

(***************************************************************************)
(* Prompt building.  The rendered current date and time is one element,    *)
(* "<now>": it is an input of the call that no step of the pipeline reads  *)
(* back.                                                                   *)
(***************************************************************************)
Now == <<"<now>">>
NL == <<"\n">>
NLNL == <<"\n", "\n">>

SystemMessages(messages) == SelectSeq(messages, LAMBDA m : m.role = "system")
ConversationMessages(messages) == SelectSeq(messages, LAMBDA m : m.role # "system")

RoleLine(m) ==
    IF m.role = "user" THEN <<"Human:", " ">> \o ExtractMessageContent(m)
    ELSE IF m.role = "assistant" THEN <<"Assistant:", " ">> \o ExtractMessageContent(m)
    ELSE ExtractMessageContent(m)

\* A builder that appends the assistant cue to every prompt.
BuildFormattedPrompt_AlwaysCue(v, systemMessages, conversationMessages) ==
    LET system ==
            IF Len(systemMessages) > 0
            THEN <<"### SYSTEM INSTRUCTIONS ###", "\n">>
                 \o Join([i \in 1..Len(systemMessages) |->
                            ExtractMessageContent(systemMessages[i])], NLNL)
                 \o <<"\n", "\n", "### CONVERSATION ###", "\n">>
            ELSE <<>>
        conversation ==
            Join([i \in 1..Len(conversationMessages) |->
                    RoleLine(conversationMessages[i])], NLNL)
    IN  system \o conversation \o <<"\n", "\n", "Assistant:">>

\* buildFormattedPrompt: the websearch variant uses the one of the
\* utilities, which adds the date block before the assistant cue.
BuildFormattedPrompt(v, systemMessages, conversationMessages) ==
    LET system ==
            IF Len(systemMessages) > 0
            THEN <<"### SYSTEM INSTRUCTIONS ###", "\n">>
                 \o Join([i \in 1..Len(systemMessages) |->
                            ExtractMessageContent(systemMessages[i])], NLNL)
                 \o <<"\n", "\n", "### CONVERSATION ###", "\n">>
            ELSE <<>>
        conversation ==
            Join([i \in 1..Len(conversationMessages) |->
                    RoleLine(conversationMessages[i])], NLNL)
        date == IF v = "websearch"
                THEN <<"\n", "\n", "--- CURRENT DATE AND TIME ---", "\n">> \o Now
                ELSE <<>>
        cue == IF /\ Len(conversationMessages) > 0
                  /\ conversationMessages[Len(conversationMessages)].role = "user"
               THEN <<"\n", "\n", "Assistant:">>
               ELSE <<>>
    IN  system \o conversation \o date \o cue

\* The prompt of a message list without search results.
PlainPrompt(v, messages) ==
    BuildFormattedPrompt(v, SystemMessages(messages), ConversationMessages(messages))

\* A formatter without the placeholder of an empty list.
FormatSearchResults_NoPlaceholder(results, query) ==
    IF Len(results) = 0 THEN <<>>
    ELSE Join([i \in 1..Len(results) |->
                <<"### ", ToString(i), ". ">> \o results[i].title \o NLNL
                \o results[i].snippet
                \o <<"\n", "\n", "**Source:** ", "[">> \o results[i].url
                \o <<"]", "(">> \o results[i].url \o <<")", "\n">>],
              <<"\n", "---", "\n", "\n">>)

\* formatSearchResults(results, query) of the inline variant, markdown.
FormatSearchResults(results, query) ==
    IF Len(results) = 0
    THEN <<"No search results found for query: ", "\"">> \o query \o <<"\"">>
    ELSE Join([i \in 1..Len(results) |->
                <<"### ", ToString(i), ". ">> \o results[i].title \o NLNL
                \o results[i].snippet
                \o <<"\n", "\n", "**Source:** ", "[">> \o results[i].url
                \o <<"]", "(">> \o results[i].url \o <<")", "\n">>],
              <<"\n", "---", "\n", "\n">>)

\* The result block of the websearch variant's buildPromptWithSearchResults.
DetailedResults(results) ==
    IF Len(results) = 0 THEN <<"No search results found.">>
    ELSE Join([i \in 1..Len(results) |->
                <<"[", ToString(i), "]", " ">> \o results[i].title
                \o <<"\n", "URL: ">> \o results[i].url
                \o <<"\n", "Content: ">>
                \o (IF results[i].snippet # <<>> THEN results[i].snippet
                    ELSE <<"No content available">>)],
              NLNL)

\* buildPromptWithSearchResults
BuildPromptWithSearchResults(v, messages, results, query) ==
    IF v = "inline"
    THEN PlainPrompt(v, messages)
         \o <<"\n", "\n", "--- WEB SEARCH RESULTS ---", "\n", "Search Query: ", "\"">>
         \o query \o <<"\"", "\n", "\n">>
         \o FormatSearchResults(results, query)
         \o <<"\n", "\n", "Please use the above search results">>
    ELSE PlainPrompt(v, messages)
         \o <<"\n", "\n", "--- CURRENT DATE AND TIME ---", "\n">> \o Now
         \o <<"\n", "\n", "--- WEB SEARCH RESULTS ---", "\n", "Search Query: ", "\"">>
         \o query \o <<"\"", "\n", "\n">>
         \o DetailedResults(results)
         \o <<"\n", "\n", "--- RESPONSE INSTRUCTIONS ---", "\n",
              "You MUST provide a comprehensive and substantive response">>

(***************************************************************************)
(* Query generation: the text asked of the model, and the query taken from *)
(* the model's answer or, when the call fails, from the messages.          *)
(***************************************************************************)
RoleChars(r) ==
    CASE r = "user" -> <<"u", "s", "e", "r">>
      [] r = "assistant" -> <<"a", "s", "s", "i", "s", "t", "a", "n", "t">>
      [] r = "system" -> <<"s", "y", "s", "t", "e", "m">>
      [] OTHER -> <<"t", "o", "o", "l">>

LastOf(seq) == seq[Len(seq)]

\* messages.slice(-3).map(role: content).join('\n')
ContextPrompts(messages) ==
    LET from == IF Len(messages) > 3 THEN Len(messages) - 2 ELSE 1
        ctx == SubSeq(messages, from, Len(messages))
    IN  Join([i \in 1..Len(ctx) |->
                RoleChars(ctx[i].role) \o <<":", " ">> \o ExtractMessageContent(ctx[i])],
             NL)

\* userPrompt: what the model is asked to turn into a query.
UserPrompt(v, messages) ==
    IF v = "inline" THEN ExtractMessageContent(LastOf(messages))
    ELSE IF ContextPrompts(messages) # <<>> THEN ContextPrompts(messages)
    ELSE ExtractMessageContent(LastOf(messages))

\* s.split('\n').pop()
RECURSIVE LastLine(_)
LastLine(s) ==
    IF \E i \in 1..Len(s) : s[i] = "\n" THEN LastLine(Tail(s)) ELSE s

\* line.replace(/^(user|assistant|system):\s*/i, '')
StripRolePrefix(line) ==
    LET hit == {r \in {"user", "assistant", "system"} :
                    MatchAt(line, 1, RoleChars(r) \o <<":">>)}
    IN  IF hit = {} THEN line
        ELSE LET r == CHOOSE x \in hit : TRUE
             IN  TrimStart(SubSeq(line, Len(RoleChars(r)) + 2, Len(line)))

\* A query that is a fixed text, whatever the messages.
FallbackQuery_General(v, messages) == <<"general information">>

\* The query returned when the call is rejected (network error, unreadable
\* answer): the catch block of generateSearchQuery.
FallbackQuery(v, messages) ==
    IF v = "inline" THEN ExtractMessageContent(LastOf(messages))
    ELSE IF ContextPrompts(messages) # <<>>
         THEN LET q == StripRolePrefix(LastLine(ContextPrompts(messages)))
              IN  IF q # <<>> THEN q ELSE ExtractMessageContent(LastOf(messages))
         ELSE ExtractMessageContent(LastOf(messages))

\* s.replace(/^["']|["']$/g, '')
StripQuotes(s) ==
    LET a == IF s # <<>> /\ Head(s) \in {"\"", "'"} THEN Tail(s) ELSE s
    IN  IF a # <<>> /\ LastOf(a) \in {"\"", "'"} THEN DropLast(a) ELSE a

\* The query taken from a 2xx answer whose first choice has the given text
\* (optional): data.choices?.[0]?.text?.trim() || userPrompt, which the
\* websearch variant then strips of tokens and quotes.
QueryFromText(v, textOpt, messages) ==
    LET raw == IF textOpt # None /\ Trim(Get(textOpt)) # <<>>
               THEN Trim(Get(textOpt)) ELSE UserPrompt(v, messages)
    IN  IF v = "inline" THEN raw
        ELSE LET cleaned ==
                    Trim(StripQuotes(RemoveFromCS(RemoveFromCS(RemoveFromCS(RemoveFromCS(
                        raw, StopTokens[1], 1), StopTokens[2], 1), StopTokens[3], 1),
                        StopTokens[4], 1)))
             IN  IF cleaned # <<>> THEN cleaned ELSE UserPrompt(v, messages)

(***************************************************************************)
(* transformToCortensor(requestBody, sessionId, modelConfig?).             *)
(*                                                                         *)
(* The function is asynchronous: it runs to its first outbound call (the   *)
(* query-generation call, then the search provider), and resumes when that *)
(* call settles.  A run of it is a record:                                 *)
(*   pc         "idle", "querygen" (awaiting the query-generation call),   *)
(*              "search" (awaiting the provider), "done";                  *)
(*   cleaned    searchDirectives.cleanedMessages;                          *)
(*   qmsgs      the messages handed to generateSearchQuery;                *)
(*   generated  what generateSearchQuery returned (absent: not returned);  *)
(*   events     what was raised inside the search branch;                  *)
(*   returned   the list the provider call returned;                       *)
(*   thrown     what the provider call threw, and searchError the error    *)
(*              that left the web search invoker for it;                   *)
(*   outcome    "pending", "result" (resolved) or "error" (rejected), with *)
(*              the result, or the class of the error.                     *)
(*                                                                         *)
(* A search provider is a function or an object with a search method; an   *)
(* object that went through JSON has no method left ("plain").             *)
(***************************************************************************)
DefaultMaxResults == 5

Provider(shape, id) == [shape |-> shape, id |-> id]
WebSearch(mode, providerOpt, maxOpt) ==
    [mode |-> mode, provider |-> providerOpt, maxResults |-> maxOpt]
\* DEFAULT_MODEL_CONFIG, under the names the parameters have in the
\* CortensorRequest.  Fractions are in hundredths (0.7 is 70, 0.95 is 95).
DEFAULT_MODEL_CONFIG ==
    [prompt_type |-> 1, prompt_template |-> <<>>, stream |-> FALSE, timeout |-> 300,
     max_tokens |-> 3000, temperature |-> 70, top_p |-> 95, top_k |-> 40,
     presence_penalty |-> 0, frequency_penalty |-> 0]

\* The literals the inline variant falls back on (lines 401-411).
InlineDefaults ==
    [DEFAULT_MODEL_CONFIG EXCEPT !.timeout = 60, !.max_tokens = 128]

Params == DOMAIN DEFAULT_MODEL_CONFIG
NoParams == [p \in Params |-> None]

\* A model configuration: its parameters are optional.
ModelConfig(sessionId, wsOpt) ==
    [sessionId |-> sessionId, webSearch |-> wsOpt, params |-> NoParams]
WithParams(config, params) == [config EXCEPT !.params = params]

\* The inbound request: of its own fields temperature and max_tokens are
\* read.
NoFields == [temperature |-> None, max_tokens |-> None]
RequestBody(parseable, model, messages) ==
    [parseable |-> parseable, model |-> model, messages |-> messages,
     fields |-> NoFields]
WithFields(body, temperature, max_tokens) ==
    [body EXCEPT !.fields = [temperature |-> temperature, max_tokens |-> max_tokens]]

\* The parameters of the CortensorRequest (lines 401-411 / 761-771):
\* modelConfig?.x ?? [openAIRequest.x ??] default.  The request's field is
\* read for temperature, and in the inline variant for max_tokens.
ResolveSampling(v, modelConfigOpt, body) ==
    LET cfg(p) == IF modelConfigOpt = None THEN None ELSE Get(modelConfigOpt).params[p]
        req(p) == IF p = "temperature" THEN body.fields.temperature
                  ELSE IF p = "max_tokens" /\ v = "inline" THEN body.fields.max_tokens
                  ELSE None
        dflt == IF v = "inline" THEN InlineDefaults ELSE DEFAULT_MODEL_CONFIG
    IN  [p \in Params |->
            IF cfg(p) # None THEN Get(cfg(p))
            ELSE IF req(p) # None THEN Get(req(p))
            ELSE dflt[p]]

\* modelConfig?.webSearch and modelConfig?.webSearch?.provider
WebSearchOf(modelConfigOpt) ==
    IF modelConfigOpt = None THEN None ELSE Get(modelConfigOpt).webSearch
ProviderOf(modelConfigOpt) ==
    IF WebSearchOf(modelConfigOpt) = None THEN None
    ELSE Get(WebSearchOf(modelConfigOpt)).provider

\* The maxResults argument of the provider call: `?? 5` in the inline
\* variant, `|| 5` in the websearch module.
MaxResultsArg(v, ws) ==
    IF ws.maxResults = None THEN DefaultMaxResults
    ELSE IF v = "websearch" /\ Get(ws.maxResults) = 0 THEN DefaultMaxResults
    ELSE Get(ws.maxResults)

NoBody == RequestBody(FALSE, None, <<>>)

IdleRun ==
    [pc |-> "idle", body |-> NoBody, sessionId |-> 0, modelConfig |-> None,
     cleaned |-> <<>>, qmsgs |-> <<>>, generated |-> None, events |-> {},
     returned |-> None, thrown |-> None, searchError |-> None,
     outcome |-> "pending", error |-> "none", result |-> None]

\* The request and the result object (lines 398-426 / 758-808): the prompt
\* is augmented when results were obtained, plain otherwise; the websearch
\* variant sanitizes it.  searchQuery is set when the variable is truthy.
Finish(v, t, resultsOpt, queryOpt) ==
    LET finalPrompt ==
            IF resultsOpt # None
            THEN BuildPromptWithSearchResults(v, t.cleaned, Get(resultsOpt), Get(queryOpt))
            ELSE PlainPrompt(v, t.cleaned)
        prompt == IF v = "websearch" THEN SanitizeMessageContent(finalPrompt)
                  ELSE finalPrompt
    IN  [t EXCEPT !.pc = "done", !.outcome = "result",
                  !.result = Some([request |-> [session_id |-> t.sessionId,
                                                prompt |-> prompt,
                                                sampling |->
                                                  ResolveSampling(v, t.modelConfig, t.body)],
                                   webSearchResults |-> resultsOpt,
                                   searchQuery |-> IF Truthy(queryOpt) THEN queryOpt
                                                   ELSE None])]

\* An outer catch that swallows the error and resolves.
OuterCatch_Resolve(t) == [t EXCEPT !.pc = "done", !.outcome = "result"]

\* The outer catch: whatever was raised leaves as a new generic Error.
OuterCatch(t) == [t EXCEPT !.pc = "done", !.outcome = "error", !.error = "Error"]

\* The inner catch of the inline variant with an error that re-throws
\* every custom error class.
InnerCatch_RethrowCustom(v, t, errorClass, queryOpt) ==
    IF errorClass \in {"ConfigurationError", "WebSearchError"} THEN OuterCatch(t)
    ELSE Finish(v, t, None, queryOpt)

\* The inner catch (lines 374-387 / 709-725): a ConfigurationError is
\* re-thrown, into the outer catch; anything else falls through to the
\* plain prompt.  searchQuery keeps what was assigned before the throw.
InnerCatch(v, t, errorClass, queryOpt) ==
    IF errorClass = "ConfigurationError" THEN OuterCatch(t)
    ELSE Finish(v, t, None, queryOpt)

\* An error raised inside the search branch.  In the websearch variant it
\* is raised inside handleWebSearch of the websearch module, whose own
\* catch returns null: the transformer's inner catch is not reached.
Raise(v, t, event, errorClass, queryOpt) ==
    LET t1 == [t EXCEPT !.events = @ \cup {event}]
    IN  IF v = "inline" THEN InnerCatch(v, t1, errorClass, queryOpt)
        ELSE Finish(v, t1, None, None)

\* A thrown value: an Error instance of some class with a message, or
\* any other value (here a string, which has no message property).
Thrown(isError, cls, text) == [isError |-> isError, class |-> cls, text |-> text]
NotAFunction == Thrown(TRUE, "TypeError", <<"provider.search is not a function">>)

\* A wrapping that lets the thrown error through as it is.
WrapSearchError_Passthrough(thrown) ==
    [class |-> thrown.class, message |-> thrown.text]

\* The catch block of the web search invoker (handleWebSearch lines
\* 321-324, performWebSearch of the websearch module).
WrapSearchError(thrown) ==
    [class |-> "WebSearchError",
     message |-> <<"Web search failed: ">>
                 \o (IF thrown.isError THEN thrown.text
                     ELSE <<"Unknown web search error">>)]

\* The run after the invoker caught a thrown value.
Caught(t, thrown) ==
    [t EXCEPT !.thrown = Some(thrown), !.searchError = Some(WrapSearchError(thrown))]

\* The provider call of a run that holds a query.  A provider that is
\* neither a function nor has a search method raises a TypeError inside the
\* try block, which is wrapped into a WebSearchError.
StartSearch(v, t, query) ==
    LET t1 == [t EXCEPT !.generated = Some(query)]
    IN  IF v = "websearch" /\ query = <<>> THEN Finish(v, t1, None, None)
        ELSE IF Get(ProviderOf(t.modelConfig)).shape = "plain"
        THEN Raise(v, Caught(t1, NotAFunction), "provider.notCallable",
                   Caught(t1, NotAFunction).searchError[1].class, Some(query))
        ELSE [t1 EXCEPT !.pc = "search"]

\* generateSearchQuery up to its outbound call.
StartQueryGeneration(v, t, qmsgs, procEnv) ==
    LET t1 == [t EXCEPT !.qmsgs = qmsgs]
    IN  IF ~(procEnv.key /\ procEnv.url)
        THEN Raise(v, t1, "querygen.config", "ConfigurationError", None)
        ELSE [t1 EXCEPT !.pc = "querygen"]

\* transformToCortensor up to its first outbound call.
StartTransform(v, body, sessionId, modelConfigOpt, procEnv) ==
    LET t0 == [IdleRun EXCEPT !.body = body, !.sessionId = sessionId,
                              !.modelConfig = modelConfigOpt]
    IN  IF ~body.parseable THEN OuterCatch(t0)
        ELSE
          LET ws == WebSearchOf(modelConfigOpt)
              sd == ExtractSearchDirectives(v, body.messages, ws)
              t1 == [t0 EXCEPT !.cleaned = sd.cleanedMessages]
          IN  IF sd.shouldSearch /\ ProviderOf(modelConfigOpt) # None
              THEN IF v = "inline"
                   THEN StartQueryGeneration(v, t1, sd.cleanedMessages, procEnv)
                   ELSE LET again == ExtractSearchDirectives(v, sd.cleanedMessages, ws)
                        IN  IF ~again.shouldSearch THEN Finish(v, t1, None, None)
                            ELSE StartQueryGeneration(v, t1, again.cleanedMessages, procEnv)
              ELSE Finish(v, t1, None, None)

\* The query-generation call settles: a 2xx answer carrying a text or none,
\* a non-2xx answer, or a rejection (network error, unreadable answer).
QueryGenerationSettles(v, t, outcome) ==
    IF outcome.kind = "non2xx"
    THEN Raise(v, t, "querygen.non2xx", "WebSearchError", None)
    ELSE IF outcome.kind = "ok"
    THEN StartSearch(v, t, QueryFromText(v, outcome.text, t.qmsgs))
    ELSE StartSearch(v, [t EXCEPT !.events = @ \cup {"querygen.reject"}],
                     FallbackQuery(v, t.qmsgs))

\* The provider call settles: results, or an exception.
ProviderSettles(v, t, outcome) ==
    IF outcome.kind = "results"
    THEN Finish(v, [t EXCEPT !.returned = Some(outcome.results)],
                Some(outcome.results), t.generated)
    ELSE Raise(v, Caught(t, outcome.thrown), "provider.threw",
               Caught(t, outcome.thrown).searchError[1].class, t.generated)

(***************************************************************************)
(* The provider module: the registry of function providers, cortensorModel *)
(* (which encodes a configuration into a model name) and                   *)
(* extractModelConfiguration (which decodes it).  The encoded form is the  *)
(* JSON value of the configuration; base64 is a bijection on it.           *)
(***************************************************************************)
\* JSON.parse(JSON.stringify(webSearch)): a function-valued property is
\* dropped, an object keeps its data and loses its methods, a string stays.
JsonProvider(providerOpt) ==
    IF providerOpt = None THEN None
    ELSE IF Get(providerOpt).shape = "function" THEN None
    ELSE IF Get(providerOpt).shape = "ref" THEN providerOpt
    ELSE Some(Provider("plain", 0))

JsonConfig(config) ==
    [config EXCEPT !.webSearch =
        IF config.webSearch = None THEN None
        ELSE Some([Get(config.webSearch) EXCEPT !.provider = JsonProvider(@)])]

RegistryKeys(reg) == {e[1] : e \in reg}
RegistryGet(reg, key) == (CHOOSE e \in reg : e[1] = key)[2]
\* A store that forgets the earlier entries.
RegistrySet_Reset(reg, key, p) == {<<key, p>>}

RegistrySet(reg, key, p) == {e \in reg : e[1] # key} \cup {<<key, p>>}

IsFunctionProvider(config) ==
    /\ config.webSearch # None
    /\ Get(config.webSearch).provider # None
    /\ Get(Get(config.webSearch).provider).shape = "function"

\* A reference that reuses the first identifier.
ConfigToEncode_StaleId(config, counter) ==
    IF IsFunctionProvider(config)
    THEN [config EXCEPT !.webSearch =
            Some([Get(config.webSearch) EXCEPT
                     !.provider = Some(Provider("ref", 0))])]
    ELSE config

\* configToEncode of cortensorModel, given the identifier counter.
ConfigToEncode(config, counter) ==
    IF IsFunctionProvider(config)
    THEN [config EXCEPT !.webSearch =
            Some([Get(config.webSearch) EXCEPT
                     !.provider = Some(Provider("ref", counter))])]
    ELSE config

\* extractModelConfiguration: ok is FALSE when it throws.
ExtractModelConfiguration(body, reg) ==
    IF ~body.parseable \/ body.model = None \/ Get(body.model).sessionId = 0
    THEN [ok |-> FALSE, sessionId |-> 0, modelConfig |-> ModelConfig(0, None)]
    ELSE
      LET decoded == Get(body.model)
          ws == decoded.webSearch
          resolved ==
            IF ws = None THEN None
            ELSE IF Get(ws).provider # None /\ Get(Get(ws).provider).shape = "ref"
            THEN IF Get(Get(ws).provider).id \in RegistryKeys(reg)
                 THEN Some([Get(ws) EXCEPT
                        !.provider = Some(RegistryGet(reg, Get(Get(ws).provider).id))])
                 ELSE Some([Get(ws) EXCEPT !.provider = None])
            ELSE ws
      IN  [ok |-> TRUE, sessionId |-> decoded.sessionId,
           modelConfig |->
               WithParams(ModelConfig(decoded.sessionId, resolved),
                          [p \in Params |->
                              IF decoded.params[p] # None THEN decoded.params[p]
                              ELSE Some(DEFAULT_MODEL_CONFIG[p])])]

\* createProviderErrorResponse: the status follows the class of the error,
\* the message is the error's.  body is the chat completion, of which an
\* error response has none.
CreateProviderErrorResponse(errorClass, message) ==
    [status |-> IF errorClass = "ConfigurationError" THEN 400
                ELSE IF errorClass = "WebSearchError" THEN 502 ELSE 500,
     code |-> IF errorClass = "ConfigurationError" THEN "CONFIGURATION_ERROR"
              ELSE IF errorClass = "WebSearchError" THEN "WEB_SEARCH_ERROR"
              ELSE "UNKNOWN_ERROR",
     message |-> message,
     body |-> None]

\* The message of the error thrown for a non-2xx answer of the completion
\* endpoint: the fixed text and the downstream status.
ApiErrorMessage(status) == <<"Cortensor API error: ", ToString(status)>>

(***************************************************************************)
(* The request pipeline.                                                   *)
(*                                                                         *)
(* entry is "default" (a model of cortensorModel used through the default  *)
(* provider's fetch), "custom" (the fetch of createCortensorProvider) or    *)
(* "direct" (the application calls the exported transformToCortensor).     *)
(* mpc is "idle", "transform" (awaiting transformToCortensor),             *)
(* "completion" (awaiting the completion call) or "done".                  *)
(***************************************************************************)
Env(key, url, session) == [key |-> key, url |-> url, session |-> session]
Envs ==
    { Env(TRUE, TRUE, None), Env(TRUE, TRUE, Some(9)),
      Env(FALSE, TRUE, None), Env(TRUE, FALSE, None) }

Entries == {"default", "custom", "direct"}

F1 == Provider("function", 1)
F2 == Provider("function", 2)
O1 == Provider("object", 3)

\* Parameters written by the application: a temperature of 0.2, 256
\* tokens, top_k 10, the others left out.
ExplicitParams ==
    [NoParams EXCEPT !.temperature = Some(20), !.max_tokens = Some(256),
                     !.top_k = Some(10)]

\* The inbound request's own temperature (0.5) and max_tokens.
Hi == <<Msg("user", StrContent(<<"h", "i">>))>>
OwnFields(body) == WithFields(body, Some(50), Some(64))

\* The configurations given to cortensorModel or to the direct call.
ModelConfigs ==
    { ModelConfig(1, None),
      ModelConfig(1, Some(WebSearch("prompt", Some(F1), None))),
      ModelConfig(2, Some(WebSearch("force", Some(F2), Some(3)))),
      ModelConfig(2, Some(WebSearch("force", Some(O1), None))),
      WithParams(ModelConfig(1, Some(WebSearch("disable", Some(F1), Some(0)))),
                 ExplicitParams),
      ModelConfig(2, Some(WebSearch("prompt", None, None))) }

\* The message lists of a request.
PipelineMessages(v) ==
    LET m == SearchMarker(v)
        n == NoSearchMarker(v)
        user(c) == Msg("user", StrContent(c))
    IN  { <<user(<<"h", "i">>)>>,
          <<user(Upper(m) \o <<" ", "h", "i">>)>>,
          <<Msg("system", StrContent(<<"b", "e">>)), user(n \o m \o <<"h", "i">>)>>,
          <<user(m)>>,
          <<user(m \o <<"a", "\n", "h", "i">>)>>,
          <<user(SubSeq(m, 1, 4) \o m \o SubSeq(m, 5, Len(m)))>> }
        \cup (IF v = "websearch"
              THEN {<<user(<<"<", "<", "s", ">", "s", ">", " ", "h", "i">>)>>}
              ELSE {})

QueryGenOutcomes ==
    { [kind |-> "ok", text |-> None], [kind |-> "ok", text |-> Some(<<"q">>)],
      [kind |-> "non2xx", text |-> None], [kind |-> "reject", text |-> None] }

Boom == <<"b", "o", "o", "m">>
NoThrow == Thrown(FALSE, "none", <<>>)

ProviderOutcomes ==
    { [kind |-> "results", results |-> <<>>, thrown |-> NoThrow],
      [kind |-> "results", results |-> <<R2, R1, R2>>, thrown |-> NoThrow],
      [kind |-> "throws", results |-> <<>>, thrown |-> Thrown(TRUE, "RangeError", Boom)],
      [kind |-> "throws", results |-> <<>>, thrown |-> Thrown(FALSE, "string", Boom)] }

GoodBody ==
    ObjectBody(<<Choice(TextStr(<<"o", "k">>), Some(0), Some("stop"))>>,
               Some([prompt_tokens |-> 5, completion_tokens |-> 6, total_tokens |-> 11]),
               Some("m1"))

\* The answers of the completion endpoint: 200 with a body, a non-2xx
\* status, or no answer (the call is rejected).
CompletionOutcomes ==
    { [kind |-> "ok", status |-> 200, body |-> GoodBody],
      [kind |-> "ok", status |-> 200, body |-> EmptyBody],
      [kind |-> "non2xx", status |-> 404, body |-> EmptyBody],
      [kind |-> "reject", status |-> 0, body |-> EmptyBody] }

PIdle ==
    /\ env = Env(TRUE, TRUE, None)
    /\ entry = "default"
    /\ registry = {}
    /\ providerIdCounter = 0
    /\ models = <<>>
    /\ given = <<>>
    /\ mpc = "idle"
    /\ tr = IdleRun
    /\ calls = <<>>
    /\ response = None

Init ==
    /\ variant \in Variants
    /\ env \in Envs
    /\ entry \in Entries
    /\ registry = {}
    /\ providerIdCounter = 0
    /\ models = <<>>
    /\ given = <<>>
    /\ mpc = "idle"
    /\ tr = IdleRun
    /\ calls = <<>>
    /\ response = None
    /\ DIdle
    /\ SIdle
    /\ BIdle
    /\ OIdle

\* The calls awaiting their answer.
InFlight(t, pc) ==
    (IF t.pc = "querygen" THEN {"querygen"} ELSE {})
    \cup (IF t.pc = "search" THEN {"search"} ELSE {})
    \cup (IF pc = "completion" THEN {"completion"} ELSE {})

NoRequest == [kind |-> "none", request |-> None]

\* The session_id of the query-generation call: the request's in the inline
\* variant, parseInt(process.env.CORTENSOR_SESSION_ID || '1') in the
\* websearch module.
QueryGenSession(v, t) ==
    IF v = "inline" THEN t.sessionId
    ELSE IF env.session # None THEN Get(env.session) ELSE 1

\* A dispatcher that issues the provider call a second time when the run
\* ends after the provider threw.
CallsOfStep_Reissue(v, old, new, pc) ==
    IF old.pc = "search" /\ new.pc = "done" /\ "provider.threw" \in new.events
    THEN << [call |-> "search", session_id |-> 0,
             provider |-> ProviderOf(new.modelConfig),
             query |-> Get(new.generated),
             maxResults |-> MaxResultsArg(v, Get(WebSearchOf(new.modelConfig))),
             body |-> NoRequest, run |-> old.pc, inflight |-> InFlight(old, pc), answered |-> None] >>
    ELSE IF new.pc = "querygen" /\ old.pc # "querygen"
    THEN << [call |-> "querygen", session_id |-> QueryGenSession(v, new),
             provider |-> None, query |-> <<>>, maxResults |-> 0,
             body |-> NoRequest, run |-> old.pc, inflight |-> InFlight(old, pc), answered |-> None] >>
    ELSE IF new.pc = "search" /\ old.pc # "search"
    THEN << [call |-> "search", session_id |-> 0,
             provider |-> ProviderOf(new.modelConfig),
             query |-> Get(new.generated),
             maxResults |-> MaxResultsArg(v, Get(WebSearchOf(new.modelConfig))),
             body |-> NoRequest, run |-> old.pc,
             inflight |-> InFlight(old, pc) \ {"querygen"},
             answered |-> None] >>
    ELSE <<>>

\* The outbound calls a step of the run dispatched.
CallsOfStep(v, old, new, pc) ==
    IF new.pc = "querygen" /\ old.pc # "querygen"
    THEN << [call |-> "querygen", session_id |-> QueryGenSession(v, new),
             provider |-> None, query |-> <<>>, maxResults |-> 0,
             body |-> NoRequest, run |-> old.pc, inflight |-> InFlight(old, pc), answered |-> None] >>
    ELSE IF new.pc = "search" /\ old.pc # "search"
    THEN << [call |-> "search", session_id |-> 0,
             provider |-> ProviderOf(new.modelConfig),
             query |-> Get(new.generated),
             maxResults |-> MaxResultsArg(v, Get(WebSearchOf(new.modelConfig))),
             body |-> NoRequest, run |-> old.pc,
             inflight |-> InFlight(old, pc) \ {"querygen"},
             answered |-> None] >>
    ELSE <<>>

CompletionCall(t, body) ==
    [call |-> "completion", session_id |-> 0, provider |-> None, query |-> <<>>,
     maxResults |-> 0, body |-> body, run |-> t.pc, inflight |-> InFlight(t, "idle"),
     answered |-> None]

\* processRequest after `await transformToCortensor(...)`: a rejection
\* becomes the error response, a result is sent as the completion call.
AfterTransform(t, log) ==
    IF t.pc # "done"
    THEN /\ mpc' = "transform" /\ calls' = log /\ response' = None
    ELSE IF t.outcome = "error"
    THEN /\ mpc' = "done" /\ calls' = log
         /\ response' = Some(CreateProviderErrorResponse(t.error,
                            <<"Failed to transform request to Cortensor format">>))
    ELSE /\ mpc' = "completion"
         /\ calls' = Append(log, CompletionCall(t,
                        [kind |-> "request", request |-> Some(Get(t.result).request)]))
         /\ response' = None

\* cortensorModel(config)
CortensorModel(config) ==
    /\ entry # "direct"
    /\ mpc = "idle"
    /\ Len(models) < MaxModels
    /\ IF IsFunctionProvider(config)
       THEN /\ registry' = RegistrySet(registry, providerIdCounter,
                                       Get(Get(config.webSearch).provider))
            /\ providerIdCounter' = providerIdCounter + 1
       ELSE UNCHANGED <<registry, providerIdCounter>>
    /\ models' = Append(models, JsonConfig(ConfigToEncode(config, providerIdCounter)))
    /\ given' = Append(given, config)
    /\ UNCHANGED <<variant, bvars, svars, dvars, ovars, env, entry, reqvars>>

\* A model name that was not made by this process: its provider reference
\* is in no registry entry.
ForeignModel ==
    ModelConfig(2, Some(WebSearch("force", Some(Provider("ref", MaxModels + 7)), None)))

\* The bodies the SDK can send: the model name is one cortensorModel
\* returned, or a name without an encoded configuration.
FetchBodies ==
    {RequestBody(TRUE, Some(models[i]), msgs) :
        i \in 1..Len(models), msgs \in PipelineMessages(variant)}
    \cup {OwnFields(RequestBody(TRUE, Some(models[i]), Hi)) : i \in 1..Len(models)}
    \cup {RequestBody(TRUE, None, Hi), RequestBody(FALSE, None, <<>>),
          RequestBody(TRUE, Some(ForeignModel), Hi)}

\* The fetch of the default provider, up to its first await that waits.
FetchDefault(body) ==
    /\ entry = "default"
    /\ mpc = "idle"
    /\ IF ~(env.key /\ env.url)
       THEN /\ mpc' = "done"
            /\ response' = Some(CreateProviderErrorResponse("ConfigurationError",
                            <<"Cortensor configuration is incomplete">>))
            /\ UNCHANGED <<tr, calls>>
       ELSE LET x == ExtractModelConfiguration(body, registry)
            IN  IF ~x.ok
                THEN /\ mpc' = "done"
                     /\ response' = Some(CreateProviderErrorResponse("Error",
                                   <<"Failed to extract model configuration">>))
                     /\ UNCHANGED <<tr, calls>>
                ELSE LET t == StartTransform(variant, body, x.sessionId,
                                             Some(x.modelConfig), env)
                     IN  /\ tr' = t
                         /\ AfterTransform(t, calls \o CallsOfStep(variant, tr, t, mpc))
    /\ UNCHANGED <<variant, bvars, svars, dvars, ovars, env, entry, regvars>>

\* The fetch of a provider of createCortensorProvider, up to its first
\* await that waits.  transformToCortensor is called and not awaited: the
\* body of the completion call is the JSON of the pending promise.
FetchCustom(body) ==
    /\ entry = "custom"
    /\ mpc = "idle"
    /\ LET x == ExtractModelConfiguration(body, registry)
       IN  IF ~x.ok
           THEN /\ mpc' = "done"
                /\ response' = Some(CreateProviderErrorResponse("Error",
                                   <<"Failed to extract model configuration">>))
                /\ UNCHANGED <<tr, calls>>
           ELSE LET t == StartTransform(variant, body, x.sessionId,
                                        Some(x.modelConfig), env)
                    log == calls \o CallsOfStep(variant, tr, t, mpc)
                IN  /\ tr' = t
                    /\ IF ~env.url
                       THEN /\ mpc' = "done"
                            /\ calls' = log
                            /\ response' = Some(CreateProviderErrorResponse("Error",
                                               <<"Failed to parse URL">>))
                       ELSE /\ mpc' = "completion"
                            /\ calls' = Append(log, CompletionCall(t,
                                            [kind |-> "promise", request |-> None]))
                            /\ response' = None
    /\ UNCHANGED <<variant, bvars, svars, dvars, ovars, env, entry, regvars>>

\* The application calls transformToCortensor itself.
CallTransformToCortensor(body, sessionId, modelConfigOpt) ==
    /\ entry = "direct"
    /\ mpc = "idle"
    /\ LET t == StartTransform(variant, body, sessionId, modelConfigOpt, env)
       IN  /\ tr' = t
           /\ calls' = calls \o CallsOfStep(variant, tr, t, mpc)
           /\ mpc' = IF t.pc = "done" THEN "done" ELSE "transform"
    /\ UNCHANGED <<variant, bvars, svars, dvars, ovars, env, entry, regvars, response>>

\* A step of the run, and what the awaiting caller does with its end.
RunStep(t) ==
    /\ tr' = t
    /\ LET log == calls \o CallsOfStep(variant, tr, t, mpc)
       IN  IF entry = "default" THEN AfterTransform(t, log)
           ELSE /\ calls' = log
                /\ mpc' = IF entry = "direct" /\ t.pc = "done" THEN "done" ELSE mpc
                /\ UNCHANGED response
    /\ UNCHANGED <<variant, bvars, svars, dvars, ovars, env, entry, regvars>>

QueryGenerationResponds(outcome) ==
    /\ tr.pc = "querygen"
    /\ RunStep(QueryGenerationSettles(variant, tr, outcome))

SearchProviderResponds(outcome) ==
    /\ tr.pc = "search"
    /\ RunStep(ProviderSettles(variant, tr, outcome))

\* The completion call settles.  processRequest passes the search results
\* and query of the transform; processCustomRequest passes neither.
CompletionResponds(outcome) ==
    /\ mpc = "completion"
    /\ mpc' = "done"
    /\ response' =
        IF outcome.kind = "non2xx"
        THEN Some(CreateProviderErrorResponse("Error", ApiErrorMessage(outcome.status)))
        ELSE IF outcome.kind = "reject"
        THEN Some(CreateProviderErrorResponse("Error", <<"fetch failed">>))
        ELSE LET r == TransformToOpenAI(variant, [status |-> outcome.status, body |-> outcome.body],
                        IF entry = "default" THEN Get(tr.result).webSearchResults ELSE None,
                        IF entry = "default" THEN Get(tr.result).searchQuery ELSE None)
             IN  Some([status |-> r.status, code |-> "none", message |-> <<>>,
                       body |-> Some(r.body)])
    /\ calls' = [calls EXCEPT ![Len(calls)].answered =
                    IF outcome.kind = "reject" THEN None ELSE Some(outcome.status)]
    /\ UNCHANGED <<variant, bvars, svars, dvars, ovars, env, entry, regvars, tr>>

Next ==
    \/ \E config \in ModelConfigs : CortensorModel(config)
    \/ \E body \in FetchBodies : FetchDefault(body)
    \/ \E body \in FetchBodies : FetchCustom(body)
    \/ \E msgs \in PipelineMessages(variant) \cup {<<>>},
          config \in {None} \cup {Some(c) : c \in ModelConfigs} :
            CallTransformToCortensor(RequestBody(TRUE, None, msgs),
                                     IF config = None THEN 7 ELSE Get(config).sessionId,
                                     config)
    \/ \E config \in {None} \cup {Some(c) : c \in ModelConfigs} :
            CallTransformToCortensor(OwnFields(RequestBody(TRUE, None, Hi)),
                                     IF config = None THEN 7 ELSE Get(config).sessionId,
                                     config)
    \/ \E config \in {None, Some(ModelConfig(2, Some(WebSearch("force", Some(F2), Some(3)))))} :
            CallTransformToCortensor(RequestBody(FALSE, None, <<>>), 7, config)
    \/ \E outcome \in QueryGenOutcomes : QueryGenerationResponds(outcome)
    \/ \E outcome \in ProviderOutcomes : SearchProviderResponds(outcome)
    \/ \E outcome \in CompletionOutcomes : CompletionResponds(outcome)

Spec == Init /\ [][Next]_vars

(***************************************************************************)
(* The inputs of transformToOpenAI that are explored.                      *)
(***************************************************************************)
ChoiceSet ==
    { NullChoice,
      Choice(TextAbsent, None, None),
      Choice(TextStr(<<"o", "k">>), Some(0), Some("stop")),
      Choice(TextStr(<<"<", "s", ">">>), Some(3), Some("length")),
      Choice(TextStr(<<>>), None, Some("stop")),
      Choice(TextNum, Some(0), None) }

UsageSet == {None, Some([prompt_tokens |-> 5, completion_tokens |-> 6, total_tokens |-> 11])}

Bodies ==
    {EmptyBody, NotJsonBody, JsonNullBody}
    \cup {NoChoicesBody(u) : u \in UsageSet}
    \cup {ChoicesNotArrayBody(u) : u \in UsageSet}
    \cup {ObjectBody(items, u, m) :
            items \in UNION {[1..k -> ChoiceSet] : k \in 0..MaxChoices},
            u \in UsageSet, m \in {None}}
    \cup {ObjectBody(<<Choice(TextStr(<<"o", "k">>), Some(0), Some("stop"))>>, u, Some("m1")) :
            u \in UsageSet}

Statuses == {200, 404}
ResultLists == {None, Some(<<>>), Some(<<R1>>), Some(<<R2, R1, R2>>)}
Queries == {None, Some(<<>>), Some(<<"q">>)}

OInit ==
    /\ variant \in Variants
    /\ oIn \in [response : [status : Statuses, body : Bodies],
                results : ResultLists, query : Queries]
    /\ oOut = None
    /\ DIdle
    /\ SIdle
    /\ BIdle
    /\ PIdle

CallTransformToOpenAI ==
    /\ oOut = None
    /\ oOut' = Some(TransformToOpenAI(variant, oIn.response, oIn.results, oIn.query))
    /\ UNCHANGED <<variant, bvars, svars, oIn, dvars, pvars>>

ONext == CallTransformToOpenAI

SpecOpenAI == OInit /\ [][ONext]_vars

(***************************************************************************)
(* The inputs of extractSearchDirectives that are explored: the content of *)
(* the last message is a concatenation of at most MaxPieces fragments,     *)
(* among them whole markers in both letter cases and the halves of         *)
(* markers, so that adjacent, overlapping and nested markers occur.        *)
(***************************************************************************)
Fragments(v) ==
    LET m == SearchMarker(v)
        n == NoSearchMarker(v)
        h == IF v = "inline" THEN 4 ELSE 6      \* "[sea" or "[**sea"
        g == IF v = "inline" THEN 4 ELSE 6      \* "[no-" or "[**no-"
    IN  << m, Upper(m), n,
           SubSeq(m, 1, h), SubSeq(m, h + 1, Len(m)),
           SubSeq(n, 1, g), SubSeq(n, g + 1, Len(n)),
           <<"h", "i">>, <<" ">> >>

PieceLists == UNION {[1..k -> 1..9] : k \in 0..MaxPieces}

ContentOf(v, ps) == Concat([i \in 1..Len(ps) |-> Fragments(v)[ps[i]]])

\* The same fragments as the text parts of an array content.
PartsOf(v, ps) ==
    PartsContent([i \in 1..Len(ps) |-> [type |-> "text", text |-> Fragments(v)[ps[i]]]]
                 \o <<[type |-> "image", text |-> <<"x">>]>>)

Earlier(v) ==
    { <<>>,
      << Msg("system", StrContent(<<"b", "e">>)),
         Msg("user", StrContent(SearchMarker(v) \o <<"o", "l", "d">>)) >> }

Modes == {"prompt", "force", "disable"}
WebSearchConfigs == {None} \cup {Some([mode |-> m]) : m \in Modes}

DInit ==
    /\ variant \in Variants
    /\ \E ps \in PieceLists, asParts \in BOOLEAN, pre \in Earlier(variant),
          cfg \in WebSearchConfigs, empty \in BOOLEAN :
          /\ asParts => Len(ps) <= 2
          /\ empty => (ps = <<>> /\ pre = <<>> /\ ~asParts)
          /\ dIn = [messages |->
                        IF empty THEN <<>>
                        ELSE pre \o <<Msg("user",
                                 IF asParts THEN PartsOf(variant, ps)
                                 ELSE StrContent(ContentOf(variant, ps)))>>,
                    config |-> cfg]
    /\ dOut = None
    /\ OIdle
    /\ PIdle
    /\ SIdle
    /\ BIdle

CallExtractSearchDirectives ==
    /\ dOut = None
    /\ dOut' = Some(ExtractSearchDirectives(variant, dIn.messages, dIn.config))
    /\ UNCHANGED <<variant, bvars, svars, dIn, ovars, pvars>>

DNext == CallExtractSearchDirectives

SpecDirectives == DInit /\ [][DNext]_vars

(***************************************************************************)
(* The configuration store of the store variant (constants.ts):            *)
(* cortensorModel keeps the configuration in the map modelConfigurations   *)
(* under the model name `${modelName}-session-${sessionId}`,               *)
(* extractModelConfiguration looks the name up, and                        *)
(* clearModelConfigurations deletes entries.  An entry of the map is a     *)
(* pair of the name and the stored configuration.                          *)
(***************************************************************************)
MaxSession == 2

StoreNames == { <<"a">>, <<"a", "-session-", "1">> }
StoreSessions == 0..MaxSession
StoreTokens == {128, 256}

\* `${modelName}-session-${sessionId}`
UniqueModelName(modelName, sessionId) ==
    modelName \o <<"-session-", ToString(sessionId)>>

\* modelName.match(/-session-(\d+)$/): the digits at the end, if any.
SessionMatch(name) ==
    IF Len(name) >= 2 /\ name[Len(name) - 1] = "-session-"
       /\ \E k \in StoreSessions : ToString(k) = name[Len(name)]
    THEN Some(CHOOSE k \in StoreSessions : ToString(k) = name[Len(name)])
    ELSE None

StoreKeys(m) == {e[1] : e \in m}
StoreGet(m, name) == (CHOOSE e \in m : e[1] = name)[2]
StoreSet(m, name, config) == {e \in m : e[1] # name} \cup {<<name, config>>}

\* cortensorModel of the store variant: throws without a session id,
\* stores the configuration otherwise.
StoreCortensorModel(modelName, sessionId, maxTokens) ==
    /\ IF sessionId = 0
       THEN /\ UNCHANGED modelConfigurations
            /\ sLast' = [op |-> "cortensorModel", arg |-> Some(sessionId),
                         before |-> modelConfigurations, outcome |-> "threw",
                         resolved |-> None]
       ELSE /\ modelConfigurations' =
                  StoreSet(modelConfigurations, UniqueModelName(modelName, sessionId),
                           [sessionId |-> sessionId, modelName |-> modelName,
                            maxTokens |-> maxTokens])
            /\ sLast' = [op |-> "cortensorModel", arg |-> Some(sessionId),
                         before |-> modelConfigurations, outcome |-> "stored",
                         resolved |-> None]
    /\ UNCHANGED <<variant, bvars, dvars, ovars, pvars>>

\* What clearModelConfigurations(sessionId?) leaves of the map: the test
\* `if (sessionId)` sends 0 to the branch that clears everything.
Cleared(m, sessionIdOpt) ==
    IF sessionIdOpt # None /\ Get(sessionIdOpt) # 0
    THEN {e \in m : e[2].sessionId # Get(sessionIdOpt)}
    ELSE {}

ClearModelConfigurations(sessionIdOpt) ==
    /\ modelConfigurations' = Cleared(modelConfigurations, sessionIdOpt)
    /\ sLast' = [op |-> "clear", arg |-> sessionIdOpt,
                 before |-> modelConfigurations, outcome |-> "cleared",
                 resolved |-> None]
    /\ UNCHANGED <<variant, bvars, dvars, ovars, pvars>>

\* extractModelConfiguration of the store variant on a body whose model is
\* the name: "notFound" is the thrown configuration-not-found error.
StoreExtractModelConfiguration(name, m) ==
    IF SessionMatch(name) = None THEN "noSession"
    ELSE IF name \notin StoreKeys(m) THEN "notFound"
    ELSE "found"

\* A request on a model name: fetch answers the error response when the
\* extraction throws, and processes the request with the configuration
\* found under the name otherwise.
StoreRequest(name) ==
    /\ sLast' = [op |-> "request", arg |-> SessionMatch(name),
                 before |-> modelConfigurations,
                 outcome |-> StoreExtractModelConfiguration(name, modelConfigurations),
                 resolved |->
                    IF StoreExtractModelConfiguration(name, modelConfigurations) = "found"
                    THEN Some(StoreGet(modelConfigurations, name)) ELSE None]
    /\ UNCHANGED <<variant, bvars, modelConfigurations, dvars, ovars, pvars>>

StoreRequestNames ==
    {UniqueModelName(n, k) : n \in StoreNames, k \in StoreSessions} \cup StoreNames

SInit ==
    /\ variant \in Variants
    /\ SIdle
    /\ BIdle
    /\ DIdle
    /\ OIdle
    /\ PIdle

SNext ==
    \/ \E n \in StoreNames, k \in StoreSessions, t \in StoreTokens :
          StoreCortensorModel(n, k, t)
    \/ \E a \in {None} \cup {Some(k) : k \in StoreSessions} : ClearModelConfigurations(a)
    \/ \E name \in StoreRequestNames : StoreRequest(name)

SpecStore == SInit /\ [][SNext]_vars

(***************************************************************************)
(* The inputs of buildFormattedPrompt that are explored: lists of at most  *)
(* MaxMessages messages of every role, split by the caller into system and *)
(* conversation messages.  The content of the n-th message is the n-th     *)
(* letter, or empty, so that a message can be found again in the prompt.   *)
(***************************************************************************)
MaxMessages == 3

Roles == {"system", "user", "assistant", "tool"}
Letters == <<"a", "b", "c", "d">>

MessageLists ==
    UNION { { [i \in 1..n |->
                 Msg(rs[i], StrContent(IF i \in blank THEN <<>> ELSE <<Letters[i]>>))] :
              rs \in [1..n -> Roles], blank \in SUBSET {n} } : n \in 0..MaxMessages }

BInit ==
    /\ variant \in Variants
    /\ bIn \in MessageLists
    /\ bOut = None
    /\ DIdle
    /\ OIdle
    /\ PIdle
    /\ SIdle

CallBuildFormattedPrompt ==
    /\ bOut = None
    /\ bOut' = Some(BuildFormattedPrompt(variant, SystemMessages(bIn),
                                         ConversationMessages(bIn)))
    /\ UNCHANGED <<variant, bIn, dvars, ovars, pvars, svars>>

BNext == CallBuildFormattedPrompt

SpecPrompt == BInit /\ [][BNext]_vars

(***************************************************************************)
(* Properties.                                                             *)
(***************************************************************************)

\* The last message of the call and of its result.
DLastIn == ExtractMessageContent(dIn.messages[Len(dIn.messages)])
DLastOut ==
    ExtractMessageContent(Get(dOut).cleanedMessages[Len(Get(dOut).cleanedMessages)])
DApplies == dOut # None /\ dIn.config # None /\ Len(dIn.messages) > 0

\* C3: with a configuration and a non-empty list, shouldSearch is TRUE in
\* force mode and FALSE in disable mode whatever the markers, and in prompt
\* mode TRUE exactly when the last message holds a positive marker and no
\* negative marker.
C3_ModePrecedence ==
    DApplies =>
        LET mode == Get(dIn.config).mode
            pos == HasSearchMarker(variant, DLastIn)
            neg == HasNoSearchMarker(variant, DLastIn)
        IN  Get(dOut).shouldSearch =
                CASE mode = "force" -> TRUE
                  [] mode = "disable" -> FALSE
                  [] OTHER -> (pos /\ ~neg)

\* Both markers present in prompt mode: the negative one has decided.
C3_Witness ==
    /\ DApplies
    /\ Get(dIn.config).mode = "prompt"
    /\ HasSearchMarker(variant, DLastIn)
    /\ HasNoSearchMarker(variant, DLastIn)
    /\ ~Get(dOut).shouldSearch

\* C4: the cleaned content of the last message holds no occurrence of a
\* recognised marker.
C4_NoMarkerLeft ==
    DApplies =>
        /\ ~HasSearchMarker(variant, DLastOut)
        /\ ~HasNoSearchMarker(variant, DLastOut)

\* The downstream body has the shape of a CortensorResponse: a JSON object
\* whose choices are an array of objects with a string text, a numeric index
\* and a finish_reason.
ExpectedShape(body) ==
    /\ body.kind = "json" /\ body.json = "object" /\ body.choices = "array"
    /\ \A i \in 1..Len(body.items) :
          /\ ~body.items[i].isNull
          /\ body.items[i].text.kind = "string"
          /\ body.items[i].index # None
          /\ body.items[i].finish_reason # None

\* C5: transformToOpenAI does not throw, and for a body that is empty, not
\* JSON or not of the expected shape it returns status 500 with a chat
\* completion whose first choice has a non-null content and finish_reason
\* stop.
C5_MalformedGives500 ==
    (oOut # None) =>
        /\ ~Get(oOut).threw
        /\ ~ExpectedShape(oIn.response.body) =>
              /\ Get(oOut).status = 500
              /\ Get(oOut).body.object = "chat.completion"
              /\ Len(Get(oOut).body.choices) >= 1
              /\ Get(oOut).body.choices[1].message.content.kind = "string"
              /\ Get(oOut).body.choices[1].finish_reason = "stop"

(***************************************************************************)
(* Properties of the request pipeline.                                     *)
(***************************************************************************)
RunDone == tr.pc = "done"
RunResult == Get(tr.result)
CallsOf(kind) == SelectSeq(calls, LAMBDA c : c.call = kind)

\* The configuration the application wrote for the request's model: the
\* argument of the direct call, or what cortensorModel was given.
GivenConfig ==
    IF entry = "direct" THEN tr.modelConfig
    ELSE IF \E i \in 1..Len(models) : models[i] = Get(tr.body.model)
    THEN Some(given[CHOOSE i \in 1..Len(models) : models[i] = Get(tr.body.model)])
    ELSE tr.body.model

\* The prompt carries no search result block.
NonAugmented(prompt) ==
    \A i \in 1..Len(prompt) : prompt[i] # "--- WEB SEARCH RESULTS ---"

IsSuffix(a, b) == Len(a) <= Len(b) /\ a = SubSeq(b, Len(b) - Len(a) + 1, Len(b))

\* C1: when the provider throws during a required search, the run still
\* returns a result, whose prompt is the plain prompt of the cleaned
\* messages and which carries neither webSearchResults nor searchQuery.
C1_ProviderThrowsPlainResult ==
    (RunDone /\ "provider.threw" \in tr.events) =>
        /\ tr.outcome = "result"
        /\ RunResult.request.prompt = PlainPrompt(variant, tr.cleaned)
        /\ RunResult.webSearchResults = None
        /\ RunResult.searchQuery = None

\* C2: a query generation that fails for a missing API key or base URL
\* ends the run of transformToCortensor with a ConfigurationError.
C2_ConfigurationErrorPropagates ==
    (RunDone /\ "querygen.config" \in tr.events) =>
        /\ tr.outcome = "error"
        /\ tr.error = "ConfigurationError"

\* C6: through either provider, no call is dispatched while another is in
\* flight, and the completion call is dispatched once the transform has
\* ended, with the request of the transform's result as its body.
C6_CallsSequential ==
    (entry # "direct") =>
        \A i \in 1..Len(calls) :
            /\ calls[i].inflight = {}
            /\ calls[i].call = "completion" =>
                 /\ calls[i].run = "done"
                 /\ calls[i].body.kind = "request"
                 /\ tr.outcome = "result"
                 /\ calls[i].body.request = Some(RunResult.request)

\* The search is required: the directives of the inbound messages say so
\* and the run's configuration holds a provider.
SearchRequired ==
    /\ tr.body.parseable
    /\ ProviderOf(tr.modelConfig) # None
    /\ ExtractSearchDirectives(variant, tr.body.messages,
                               WebSearchOf(tr.modelConfig)).shouldSearch

QueryGenerationFailed ==
    tr.events \cap {"querygen.config", "querygen.non2xx"} # {}

\* C7: the provider is invoked exactly when the search is required and
\* query generation did not fail, and then once; when the search is not
\* required neither the query generator nor the provider is invoked.
C7_ProviderInvokedIffRequired ==
    RunDone =>
        /\ Len(CallsOf("search")) =
              IF SearchRequired /\ ~QueryGenerationFailed THEN 1 ELSE 0
        /\ ~SearchRequired => Len(CallsOf("querygen")) = 0

\* The text of the last message handed to generateSearchQuery.
QueryText == ExtractMessageContent(LastOf(tr.qmsgs))

C9_WebSearchErrorContained ==
    /\ (RunDone /\ tr.events \cap {"querygen.non2xx", "provider.threw",
                                   "provider.notCallable"} # {}) =>
          /\ tr.outcome = "result"
          /\ NonAugmented(RunResult.request.prompt)
          /\ RunResult.webSearchResults = None
    /\ response # None =>
          /\ Get(response).code # "WEB_SEARCH_ERROR"
          /\ Get(response).status # 502

\* The provider threw, and the default provider answered the request with
\* the completion.
C9_Witness ==
    /\ entry = "default"
    /\ "provider.threw" \in tr.events
    /\ response # None
    /\ Get(response).status = 200

\* The search the application configured is required: its configuration
\* holds a provider and its directives ask for a search.
GivenRequired ==
    /\ tr.body.parseable
    /\ GivenConfig # None
    /\ WebSearchOf(GivenConfig) # None
    /\ ProviderOf(GivenConfig) # None
    /\ ExtractSearchDirectives(variant, tr.body.messages,
                               WebSearchOf(GivenConfig)).shouldSearch

\* C10: when the search is required and a non-empty query was generated, the
\* provider the application configured, function or object, is the one
\* invoked, with the query and the configured number of results.
C10_ConfiguredProviderInvoked ==
    (RunDone /\ GivenRequired /\ tr.generated # None /\ tr.generated # Some(<<>>)) =>
        /\ Len(CallsOf("search")) = 1
        /\ CallsOf("search")[1].provider = ProviderOf(GivenConfig)
        /\ CallsOf("search")[1].query = Get(tr.generated)
        /\ CallsOf("search")[1].maxResults =
              IF Get(WebSearchOf(GivenConfig)).maxResults = None
              THEN DefaultMaxResults
              ELSE Get(Get(WebSearchOf(GivenConfig)).maxResults)

\* C11 as stated: whatever the provider throws leaves the invoker as a
\* WebSearchError whose message carries the text of what was thrown.
C11_AnyThrownMessageCarried ==
    tr.thrown # None =>
        /\ tr.searchError # None
        /\ Get(tr.searchError).class = "WebSearchError"
        /\ IsSuffix(Get(tr.thrown).text, Get(tr.searchError).message)

\* C11, amended: whatever the provider throws leaves the invoker as one
\* WebSearchError; its message ends with the message of the thrown value
\* when that is an Error instance, and is the fixed "Unknown web search
\* error" text when it is any other value.
C11_WrappedAsWebSearchError ==
    tr.thrown # None =>
        /\ tr.searchError # None
        /\ Get(tr.searchError).class = "WebSearchError"
        /\ Get(tr.thrown).isError =>
              /\ IsSuffix(Get(tr.thrown).text, Get(tr.searchError).message)
              /\ Len(Get(tr.searchError).message) > Len(Get(tr.thrown).text)
        /\ ~Get(tr.thrown).isError =>
              Get(tr.searchError).message =
                  <<"Web search failed: ", "Unknown web search error">>

\* The provider threw a RangeError and the invoker's error carries its
\* message.
C11_Witness ==
    /\ "provider.threw" \in tr.events
    /\ tr.thrown = Some(Thrown(TRUE, "RangeError", Boom))
    /\ Get(tr.searchError).message = <<"Web search failed: ">> \o Boom

\* The configuration a provider's fetch needs is incomplete.  The default
\* provider takes key and base URL from the environment; a provider of
\* createCortensorProvider holds its own key (it cannot be created without
\* one) and builds the completions URL from the environment's base URL.
KeyAbsent == entry = "default" /\ ~env.key
UrlAbsent == entry \in {"default", "custom"} /\ ~env.url

\* C12: with the API key or the base URL absent, a request through a
\* provider's fetch dispatches no outbound call and ends in the response of
\* a ConfigurationError, status 400.
C12_MissingConfigFailsFast400 ==
    (KeyAbsent \/ UrlAbsent) =>
        /\ calls = <<>>
        /\ mpc = "done" =>
              /\ response # None
              /\ Get(response).status = 400
              /\ Get(response).code = "CONFIGURATION_ERROR"

OutboundCalls == {"querygen", "search", "completion"}

\* C13: while one inbound request is handled, the query-generation call,
\* the search-provider call and the completion call are each dispatched at
\* most once, also after a call failed.
C13_EachCallAtMostOnce ==
    \A k \in OutboundCalls : Len(CallsOf(k)) <= 1

\* The provider threw, the request went on to its end through the default
\* provider, and each of the three calls was dispatched exactly once.
C13_Witness ==
    /\ entry = "default"
    /\ mpc = "done"
    /\ "provider.threw" \in tr.events
    /\ \A k \in OutboundCalls : Len(CallsOf(k)) = 1

\* C14: a run of transformToCortensor on a body that is not parseable JSON
\* ends with the generic transform error, holds no result, and dispatched
\* neither the query-generation call nor the provider call.
C14_UnparseableBodyFails ==
    (tr.pc # "idle" /\ ~tr.body.parseable) =>
        /\ RunDone
        /\ tr.outcome = "error"
        /\ tr.error = "Error"
        /\ tr.result = None
        /\ CallsOf("querygen") = <<>>
        /\ CallsOf("search") = <<>>

\* An unparseable body was handed over together with a configuration that
\* forces the search, and the run ended with the error.
C14_Witness ==
    /\ RunDone
    /\ ~tr.body.parseable
    /\ tr.modelConfig # None
    /\ Get(WebSearchOf(tr.modelConfig)).mode = "force"
    /\ tr.outcome = "error"

\* A content with every marker taken out of its text and nothing else
\* changed: the text of a string content, the text of each text part of an
\* array content.
WithoutMarkers(v, content) ==
    LET strip(s) == RemoveAll(RemoveAll(s, SearchMarker(v)), NoSearchMarker(v))
    IN  IF content.kind = "string" THEN StrContent(strip(content.text))
        ELSE IF content.kind = "parts"
        THEN PartsContent([i \in 1..Len(content.parts) |->
                IF content.parts[i].type = "text"
                THEN [content.parts[i] EXCEPT !.text = strip(@)]
                ELSE content.parts[i]])
        ELSE content

\* C15: with a configuration and a non-empty list, cleanedMessages has the
\* length and order of the input, every message but the last is the input's,
\* the last keeps its role and its content is the input's with the markers
\* removed and nothing else; without a marker the content is identical.
C15_OnlyMarkersRemoved ==
    DApplies =>
        LET given_ == dIn.messages
            cleaned == Get(dOut).cleanedMessages
            n == Len(given_)
        IN  /\ Len(cleaned) = n
            /\ \A i \in 1..(n - 1) : cleaned[i] = given_[i]
            /\ cleaned[n].role = given_[n].role
            /\ cleaned[n].content = WithoutMarkers(variant, given_[n].content)
            /\ (~HasSearchMarker(variant, DLastIn) /\ ~HasNoSearchMarker(variant, DLastIn))
                  => cleaned[n].content = given_[n].content

\* The first defined of three optional values.
Cascade(first, second, third) ==
    IF first # None THEN first ELSE IF second # None THEN second ELSE third

\* What the application wrote for a parameter in the model configuration.
Explicit(p) ==
    IF GivenConfig = None THEN None ELSE Get(GivenConfig).params[p]

\* The inbound request's own field for a parameter.
OwnField(p) ==
    IF p = "temperature" THEN tr.body.fields.temperature
    ELSE IF p = "max_tokens" THEN tr.body.fields.max_tokens
    ELSE None

\* C16: every parameter of the downstream request is the first defined of
\* the model configuration's explicit value, the global default
\* configuration's value and (temperature and max_tokens) the inbound
\* request's own field; it is never undefined.
C16_SamplingCascade ==
    (RunDone /\ tr.outcome = "result") =>
        \A p \in Params :
            Some(RunResult.request.sampling[p]) =
                Cascade(Explicit(p), Some(DEFAULT_MODEL_CONFIG[p]), OwnField(p))

\* C17: in the tool-call presentation, with non-empty search results every
\* output choice carries a web_search tool_calls entry holding the query and
\* the results and has finish_reason tool_calls; a choice without the entry
\* has the downstream finish_reason, stop if there is none, and so has
\* finish_reason tool_calls only with the entry.
C17_ToolCallsIffResults ==
    (oOut # None /\ variant = "inline" /\ ~OpenAIRaises(variant, oIn.response.body)) =>
        \A i \in 1..Len(Get(oOut).body.choices) :
            LET out == Get(oOut).body.choices[i]
                down == oIn.response.body.items[i]
                entry_ == out.message.tool_calls
            IN  /\ HasResults(oIn.results) =>
                      /\ entry_ # None
                      /\ Get(entry_).name = "web_search"
                      /\ Some(Get(entry_).query) = oIn.query
                      /\ Some(Get(entry_).results) = oIn.results
                      /\ out.finish_reason = "tool_calls"
                /\ entry_ = None =>
                      out.finish_reason =
                          IF down.finish_reason # None THEN Get(down.finish_reason)
                          ELSE "stop"

\* A transformed answer to a well-formed downstream response.
WellFormedAnswered ==
    /\ oOut # None
    /\ ExpectedShape(oIn.response.body)
    /\ Len(oIn.response.body.items) > 0

\* The outbound usage is the downstream usage, all zeros without one.
UsagePassesThrough ==
    Get(oOut).body.usage =
        IF oIn.response.body.usage # None THEN oIn.response.body.usage
        ELSE Some(ZeroUsage)

IsPrefix(a, b) == Len(a) <= Len(b) /\ a = SubSeq(b, 1, Len(a))

HasNoResultsPlaceholder(prompt) ==
    \E i \in 1..Len(prompt) :
        prompt[i] \in {"No search results found for query: ", "No search results found."}

\* C19: when the provider returned an empty list, the run ends in a result
\* whose prompt holds the web search section with the no-results
\* placeholder, and is not the plain prompt.
C19_EmptyResultsKeepSection ==
    (RunDone /\ tr.returned = Some(<<>>)) =>
        /\ tr.outcome = "result"
        /\ ~NonAugmented(RunResult.request.prompt)
        /\ HasNoResultsPlaceholder(RunResult.request.prompt)
        /\ RunResult.request.prompt # PlainPrompt(variant, tr.cleaned)

\* The provider was called for a required search and returned an empty
\* list; the prompt holds the section.
C19_Witness ==
    /\ RunDone
    /\ SearchRequired
    /\ Len(CallsOf("search")) = 1
    /\ tr.returned = Some(<<>>)
    /\ ~NonAugmented(RunResult.request.prompt)

\* What the completion endpoint answered, if the call was made and answered.
DownstreamStatus ==
    IF Len(CallsOf("completion")) = 1 THEN CallsOf("completion")[1].answered ELSE None

NonSuccess(status) == status < 200 \/ status > 299

\* C20: when the completion endpoint answered with a non-2xx status, the
\* request ends in a failure that holds no chat completion (the response
\* transformer was not run) and whose status is the downstream status.
C20_Non2xxStatusPreserved ==
    (mpc = "done" /\ DownstreamStatus # None /\ NonSuccess(Get(DownstreamStatus))) =>
        /\ response # None
        /\ Get(response).body = None
        /\ Get(response).status = Get(DownstreamStatus)

\* C21: a step that processes a request (any step of a request that has
\* started or starts) leaves the provider registry as it is; a step that
\* changes the registry is a cortensorModel call, and it only adds.
C21_RegistryOnlyGrowsByCortensorModel ==
    [][ /\ (mpc # "idle" \/ mpc' # "idle") => registry' = registry
        /\ registry' # registry =>
              /\ Len(models') = Len(models) + 1
              /\ registry \subseteq registry' ]_vars

\* A request whose model name holds a reference that is in no registry
\* entry was processed to its end, beside a registered provider.
C21_Witness ==
    /\ mpc = "done"
    /\ registry # {}
    /\ tr.body.model = Some(ForeignModel)
    /\ ProviderOf(tr.modelConfig) = None
    /\ response # None

\* C22: clearModelConfigurations(sessionId) leaves exactly the stored
\* configurations of the other sessions, clearModelConfigurations() leaves
\* none, and a request on a model name that is not stored ends in the
\* configuration-not-found error.
C22_ClearRemovesExactlySession ==
    /\ (sLast.op = "clear" /\ sLast.arg # None) =>
          modelConfigurations =
              {e \in sLast.before : e[2].sessionId # Get(sLast.arg)}
    /\ (sLast.op = "clear" /\ sLast.arg = None) => modelConfigurations = {}
    /\ (sLast.op = "request" /\ sLast.arg # None
        /\ \A e \in modelConfigurations : e[2].sessionId # Get(sLast.arg))
          => sLast.outcome = "notFound"

\* The text holds one of the tokens sanitizeMessageContent removes.
HoldsStopToken(text) ==
    \E k \in 1..Len(StopTokens), i \in 1..Len(text) : MatchAtCS(text, i, StopTokens[k])

\* C23: in the sanitizing variant the prompt of the downstream request
\* holds no occurrence of </s>, <s>, [INST] or [/INST].
C23_PromptHoldsNoStopToken ==
    (variant = "websearch" /\ RunDone /\ tr.outcome = "result") =>
        ~HoldsStopToken(RunResult.request.prompt)

\* The titles of search results met in a text, from left to right.
RECURSIVE TitlesFound(_, _)
TitlesFound(text, i) ==
    IF i > Len(text) THEN <<>>
    ELSE IF \E r \in {R1, R2} : MatchAtCS(text, i, r.title)
    THEN <<(CHOOSE r \in {R1, R2} : MatchAtCS(text, i, r.title)).title>>
         \o TitlesFound(text, i + 1)
    ELSE TitlesFound(text, i + 1)

TitlesOf(results) == [n \in 1..Len(results) |-> results[n].title]

\* The provider returned a non-empty list.
ProviderReturnedSome == tr.returned # None /\ Len(Get(tr.returned)) > 0

\* The results the answer of the request presents in its choice: the
\* arguments of the tool call, or the titles of the citation list.
PresentedTitles(choice) ==
    IF variant = "inline"
    THEN IF choice.message.tool_calls = None THEN <<>>
         ELSE TitlesOf(Get(choice.message.tool_calls).results)
    ELSE TitlesFound(choice.message.content.s, 1)

\* C24: the list the provider returned is, entry by entry and in its
\* order, the webSearchResults of the transform result, the entries of the
\* prompt's web search section, and the entries of the citation list or of
\* the tool-call arguments of every choice of the answer.
C24_ResultsKeptInOrder ==
    (RunDone /\ ProviderReturnedSome) =>
        /\ tr.outcome = "result"
        /\ RunResult.webSearchResults = tr.returned
        /\ TitlesFound(RunResult.request.prompt, 1) = TitlesOf(Get(tr.returned))
        /\ (mpc = "done" /\ response # None /\ Get(response).body # None
            /\ Get(response).status = 200) =>
              \A i \in 1..Len(Get(Get(response).body).choices) :
                  PresentedTitles(Get(Get(response).body).choices[i])
                      = TitlesOf(Get(tr.returned))

BPrompt == Get(bOut)
BConversation == ConversationMessages(bIn)

\* The prompt ends with the assistant cue: a blank line and `Assistant:`.
EndsWithCue(prompt) ==
    /\ Len(prompt) >= 3
    /\ SubSeq(prompt, Len(prompt) - 2, Len(prompt)) = <<"\n", "\n", "Assistant:">>

\* The contents of the messages met in a text, from left to right.
ContentsFound(text) ==
    SelectSeq(text, LAMBDA c : \E i \in 1..Len(Letters) : c = Letters[i])

ContentsOf(messages) ==
    Concat([i \in 1..Len(messages) |-> ExtractMessageContent(messages[i])])

\* C25: the prompt of buildFormattedPrompt ends with the assistant cue
\* exactly when the conversation is non-empty and its last message has role
\* user, and the contents of the messages appear once each: those of the
\* system messages first, then those of the conversation in its order.
C25_CueIffLastIsUser ==
    bOut # None =>
        /\ EndsWithCue(BPrompt) <=>
              /\ Len(BConversation) > 0
              /\ BConversation[Len(BConversation)].role = "user"
        /\ ContentsFound(BPrompt) =
              ContentsOf(SystemMessages(bIn)) \o ContentsOf(BConversation)

\* A conversation that ends with a user message after a system message and
\* an assistant message: the prompt ends with the cue.
C25_Witness ==
    /\ bOut # None
    /\ Len(bIn) = MaxMessages
    /\ bIn[1].role = "assistant"
    /\ bIn[2].role = "system"
    /\ bIn[3].role = "user"
    /\ EndsWithCue(BPrompt)

\* C26: creating a model leaves every configuration an earlier model
\* instance resolves to as it was when that instance was created.
C26_EarlierInstanceKeepsConfig ==
    (sLast.op = "cortensorModel" /\ sLast.outcome = "stored") =>
        \A e \in sLast.before :
            /\ e[1] \in StoreKeys(modelConfigurations)
            /\ StoreGet(modelConfigurations, e[1]) = e[2]

\* The request body the SDK sends for the i-th model cortensorModel
\* returned, and the provider extractModelConfiguration restores for it.
BodyOfModel(i) == RequestBody(TRUE, Some(models[i]), Hi)
ResolvedProvider(i) ==
    ProviderOf(Some(ExtractModelConfiguration(BodyOfModel(i), registry).modelConfig))

\* C27: every function provider is registered under an identifier that was
\* not issued before, no entry is overwritten, the model's name resolves to
\* the function it was created with, and a reference that is in no entry
\* resolves to a configuration without provider and not to an error.
C27_FreshIdResolvesToSameFunction ==
    /\ RegistryKeys(registry) = 0..(providerIdCounter - 1)
    /\ Cardinality(registry) = providerIdCounter
    /\ \A i \in 1..Len(models) :
          IsFunctionProvider(given[i]) =>
              /\ ExtractModelConfiguration(BodyOfModel(i), registry).ok
              /\ ResolvedProvider(i) = ProviderOf(Some(given[i]))
    /\ LET foreign == ExtractModelConfiguration(
                          RequestBody(TRUE, Some(ForeignModel), Hi), registry)
       IN  /\ foreign.ok
           /\ ProviderOf(Some(foreign.modelConfig)) = None

\* Two models were created with two different functions, and a request on
\* a foreign reference was processed without a provider.
C27_Witness ==
    /\ Len(models) = 2
    /\ IsFunctionProvider(given[1]) /\ IsFunctionProvider(given[2])
    /\ ProviderOf(Some(given[1])) # ProviderOf(Some(given[2]))
    /\ ResolvedProvider(2) = ProviderOf(Some(given[2]))
    /\ tr.body.model = Some(ForeignModel)
    /\ tr.pc = "done"
    /\ ProviderOf(tr.modelConfig) = None

\* The session id an outbound completion request carries: the session_id
\* of the query-generation call, or of the request in the body of the main
\* completion call (none when the body holds no request).
SessionOfCall(c) ==
    IF c.call = "querygen" THEN Some(c.session_id)
    ELSE IF c.body.request = None THEN None
    ELSE Some(Get(c.body.request).session_id)

\* C28: the query-generation call and the main completion call of a
\* request both carry the session id decoded from the request's model
\* name.
C28_CallsCarryRequestSession ==
    (entry # "direct") =>
        \A i \in 1..Len(calls) :
            calls[i].call \in {"querygen", "completion"} =>
                SessionOfCall(calls[i]) = Some(tr.sessionId)

\* C29: in every result of transformToCortensor, webSearchResults is
\* present exactly when the prompt of the request is the search-augmented
\* one, and searchQuery is present exactly when webSearchResults is.
C29_ResultsQueryAndPromptAgree ==
    (RunDone /\ tr.outcome = "result") =>
        /\ (RunResult.webSearchResults # None) <=> ~NonAugmented(RunResult.request.prompt)
        /\ (RunResult.searchQuery # None) <=> (RunResult.webSearchResults # None)

\* The status createProviderErrorResponse gives an error of a class.
StatusOfClass(cls) ==
    IF cls = "ConfigurationError" THEN 400
    ELSE IF cls = "WebSearchError" THEN 502 ELSE 500

\* The completion call of the request was answered without success.
CompletionFailed ==
    \E i \in 1..Len(calls) :
        /\ calls[i].call = "completion"
        /\ calls[i].answered # None
        /\ Get(calls[i].answered) # 200

\* C30: the fetch of a provider always resolves with a Response, and a
\* failure of the configuration validation, of the extraction, of the
\* transformation or of the completion call makes it an error response
\* whose status follows the class of the error: 400 for a
\* ConfigurationError, 502 for a WebSearchError, 500 for any other.
C30_EveryFailureBecomesErrorResponse ==
    (entry # "direct" /\ mpc = "done") =>
        /\ response # None
        /\ (entry = "default" /\ ~(env.key /\ env.url)) =>
              /\ Get(response).status = 400
              /\ Get(response).body = None
        /\ tr.outcome = "error" =>
              /\ Get(response).status = StatusOfClass(tr.error)
              /\ Get(response).body = None
        /\ (tr.pc = "idle" /\ (entry = "default" => env.key /\ env.url)) =>
              /\ Get(response).status = 500
              /\ Get(response).body = None
        /\ CompletionFailed =>
              /\ Get(response).status = 500
              /\ Get(response).body = None

=============================================================================
